---- MODULE Spec2Model ----
(***************************************************************************)
(* State-machine model of collegescvis/interface.py: the catalog loaded by *)
(* PlotSettings, the PlotConfigWindow with its SeriesOptions rows, the     *)
(* database lookups of PlotSettings.query_db and the figure built by       *)
(* MainWindow.update_figure.                                               *)
(*                                                                         *)
(* Conventions.                                                            *)
(*  - A database value is None (SQL NULL, Python None) or Num(n).          *)
(*  - Combo box indexes and max_college_data_index are 0-based as in the   *)
(*    code (-1: empty combo box); sequences are 1-based, so a list item at *)
(*    Python index i is s[i + 1].                                          *)
(*  - Year table names are numeric strings; int(name) is the number kept   *)
(*    here.                                                                *)
(*  - Floats are kept exact: y limits in tenths, the right margin in       *)
(*    thousandths, spine positions in hundredths.                          *)
(*  - A handler that raises leaves the state as it was at the raise; the   *)
(*    exception's name is kept in the variable raised ("" when none).      *)
(***************************************************************************)
EXTENDS Integers, Sequences, FiniteSets, TLC

VARIABLES
    db,                      \* the sqlite database behind PlotSettings.cur
    college_names,           \* PlotSettings.college_names
    year_names,              \* PlotSettings.year_names
    data_types,              \* PlotSettings.data_types
    max_college_data_index,  \* PlotSettings.max_college_data_index
    series_plots,            \* PlotSettings.series_plots
    series_options,          \* PlotConfigWindow.series_options
    window_shown,            \* PlotConfigWindow visibility (show / close)
    figure,                  \* MainWindow.figure
    printed,                 \* lines printed by the latest plot handler
    popups,                  \* message boxes raised by the latest plot handler
    raised                   \* exception that left the latest plot handler

vars == <<db, college_names, year_names, data_types, max_college_data_index,
          series_plots, series_options, window_shown, figure, printed,
          popups, raised>>

catalog == <<db, college_names, year_names, data_types, max_college_data_index>>

-----------------------------------------------------------------------------
(* Bounds of the model. *)

\* Rows of SeriesOptions the configuration window holds in Spec.
MaxOptions == 2

\* Rows beyond the cap of 20 the configuration window may hold in SpecCap.
OverCap == 1

\* Series of a directly rendered batch in SpecRender (varied series).
MaxBatch == 2

\* Series of a directly rendered palette batch in SpecRender.
MaxPalette == 22

\* Series without data inside a palette batch.
MaxSkipped == 2

-----------------------------------------------------------------------------
(* Values and small helpers. *)

None == <<>>

Num(n) == <<n>>

RECURSIVE SeqMin(_)
SeqMin(s) ==
    IF Len(s) = 1 THEN s[1]
    ELSE LET m == SeqMin(Tail(s)) IN IF s[1] < m THEN s[1] ELSE m

RECURSIVE SeqMax(_)
SeqMax(s) ==
    IF Len(s) = 1 THEN s[1]
    ELSE LET m == SeqMax(Tail(s)) IN IF s[1] > m THEN s[1] ELSE m

\* list(range(a, b + 1))
RangeList(a, b) == [i \in 1..(IF b >= a THEN b - a + 1 ELSE 0) |-> a + i - 1]

Col(n, t) == [name |-> n, type |-> t]

-----------------------------------------------------------------------------
(* The databases the program is started on.  Each has the schema the       *)
(* queries assume: a College table (college_id, INSTNM, attribute columns) *)
(* and one table per year (college_id, attribute columns).                 *)

CollegeInfo0 ==
    << Col("college_id", "INTEGER"), Col("INSTNM", "TEXT"),
       Col("CITY", "TEXT") >>

CollegeInfo1 ==
    << Col("college_id", "INTEGER"), Col("INSTNM", "TEXT"),
       Col("CITY", "TEXT"), Col("E1", "INTEGER") >>

CollegeInfo2 ==
    << Col("college_id", "INTEGER"), Col("INSTNM", "TEXT"),
       Col("E1", "INTEGER"), Col("CITY", "TEXT"), Col("E2", "REAL") >>

YearInfo ==
    << Col("college_id", "INTEGER"), Col("Y1", "INTEGER"),
       Col("NOTE", "TEXT") >>

\* Rows of College under CollegeInfo0, CollegeInfo1 and CollegeInfo2.
CollegeRow0 == [college_id |-> 1, INSTNM |-> "A", CITY |-> "X"]

CollegeRow1(e1) == [college_id |-> 1, INSTNM |-> "A", CITY |-> "X", E1 |-> e1]

CollegeRow2(id, instnm, e1, e2) ==
    [college_id |-> id, INSTNM |-> instnm, E1 |-> e1, CITY |-> "X", E2 |-> e2]

YearRow(id, y1) == [college_id |-> id, Y1 |-> y1, NOTE |-> "n"]

\* One entity field; the college has a value in every year.
DbFull ==
    [ name |-> "full", college_info |-> CollegeInfo1, year_info |-> YearInfo,
      college |-> << CollegeRow1(Num(10)) >>,
      tables |-> <<2010, 2011>>,
      rows |-> (2010 :> << YearRow(1, Num(10)) >>) @@
               (2011 :> << YearRow(1, Num(20)) >>) ]

\* The college has no row in the 2011 table.
DbSparse ==
    [ name |-> "sparse", college_info |-> CollegeInfo1, year_info |-> YearInfo,
      college |-> << CollegeRow1(Num(10)) >>,
      tables |-> <<2010, 2011>>,
      rows |-> (2010 :> << YearRow(1, Num(10)) >>) @@
               (2011 :> << YearRow(2, Num(20)) >>) ]

\* NULL entity value, NULL in the 2010 table.
DbNulls ==
    [ name |-> "nulls", college_info |-> CollegeInfo1, year_info |-> YearInfo,
      college |-> << CollegeRow1(None) >>,
      tables |-> <<2010, 2011>>,
      rows |-> (2010 :> << YearRow(1, None) >>) @@
               (2011 :> << YearRow(1, Num(20)) >>) ]

\* NULL in every year table.
DbAllNull ==
    [ name |-> "allnull", college_info |-> CollegeInfo1, year_info |-> YearInfo,
      college |-> << CollegeRow1(Num(10)) >>,
      tables |-> <<2010, 2011>>,
      rows |-> (2010 :> << YearRow(1, None) >>) @@
               (2011 :> << YearRow(1, None) >>) ]

\* The college has no row in any year table.
DbNoRows ==
    [ name |-> "norows", college_info |-> CollegeInfo1, year_info |-> YearInfo,
      college |-> << CollegeRow1(Num(10)) >>,
      tables |-> <<2010, 2011>>,
      rows |-> (2010 :> << YearRow(2, Num(10)) >>) @@
               (2011 :> << >>) ]

\* The College table has no row.
DbNoCollege ==
    [ name |-> "nocollege", college_info |-> CollegeInfo1,
      year_info |-> YearInfo,
      college |-> << >>,
      tables |-> <<2010, 2011>>,
      rows |-> (2010 :> << YearRow(1, Num(10)) >>) @@
               (2011 :> << YearRow(1, Num(20)) >>) ]

\* The College table has no numeric attribute column.
DbNoEntity ==
    [ name |-> "noentity", college_info |-> CollegeInfo0,
      year_info |-> YearInfo,
      college |-> << CollegeRow0 >>,
      tables |-> <<2010, 2011>>,
      rows |-> (2010 :> << YearRow(1, Num(10)) >>) @@
               (2011 :> << YearRow(1, Num(20)) >>) ]

\* The College table has two numeric attribute columns and two rows, stored
\* out of name order; one year table, with a row for college A only.
DbTwoEntity ==
    [ name |-> "twoentity", college_info |-> CollegeInfo2,
      year_info |-> YearInfo,
      college |-> << CollegeRow2(2, "B", None, Num(30)),
                     CollegeRow2(1, "A", Num(10), Num(20)) >>,
      tables |-> <<2010>>,
      rows |-> (2010 :> << YearRow(1, Num(30)) >>) ]

\* Year tables 2010 and 2012 exist, 2011 does not.
DbYearGap ==
    [ name |-> "yeargap", college_info |-> CollegeInfo1,
      year_info |-> YearInfo,
      college |-> << CollegeRow1(Num(10)) >>,
      tables |-> <<2010, 2012>>,
      rows |-> (2010 :> << YearRow(1, Num(10)) >>) @@
               (2012 :> << YearRow(1, Num(30)) >>) ]

Databases ==
    { DbFull, DbSparse, DbNulls, DbAllNull, DbNoRows, DbNoCollege, DbNoEntity,
      DbTwoEntity, DbYearGap }

ColNames(info) == { info[i].name : i \in 1..Len(info) }

-----------------------------------------------------------------------------
(* sqlite: the three statements the program executes. *)

\* Collation of the INSTNM values that occur, for ORDER BY INSTNM ASC.
NameRank(n) == IF n = "A" THEN 1 ELSE 2

RECURSIVE InsertByName(_, _)
InsertByName(sorted, n) ==
    IF sorted = <<>> THEN <<n>>
    ELSE IF NameRank(n) < NameRank(sorted[1]) THEN <<n>> \o sorted
    ELSE <<sorted[1]>> \o InsertByName(Tail(sorted), n)

RECURSIVE OrderByName(_)
OrderByName(names) ==
    IF names = <<>> THEN <<>>
    ELSE InsertByName(OrderByName(Tail(names)), names[1])

\* SELECT <column> FROM College WHERE INSTNM = ?
\* ok is FALSE when sqlite raises OperationalError (no such column).
ExecCollege(d, column, name) ==
    IF column \notin ColNames(d.college_info)
    THEN [ok |-> FALSE, rows |-> <<>>]
    ELSE LET hit(r) == r.INSTNM = name
             found == SelectSeq(d.college, hit)
         IN [ok |-> TRUE,
             rows |-> [i \in 1..Len(found) |-> found[i][column]]]

\* SELECT <column> FROM "<year>" JOIN College WHERE
\*   "<year>".college_id = College.college_id AND INSTNM = ?
\* ok is FALSE when sqlite raises OperationalError: no such table, no such
\* column, or a column name both tables have.
ExecYear(d, column, year, name) ==
    LET tabs == { d.tables[i] : i \in 1..Len(d.tables) }
        ycols == ColNames(d.year_info)
        ccols == ColNames(d.college_info)
    IN IF \/ year \notin tabs
          \/ column \notin (ycols \cup ccols)
          \/ column \in (ycols \cap ccols)
       THEN [ok |-> FALSE, rows |-> <<>>]
       ELSE LET mate(yr) ==
                    { i \in 1..Len(d.college) :
                        /\ d.college[i].college_id = yr.college_id
                        /\ d.college[i].INSTNM = name }
                joined(yr) == mate(yr) # {}
                found == SelectSeq(d.rows[year], joined)
                value(yr) ==
                    IF column \in ycols THEN yr[column]
                    ELSE d.college[CHOOSE i \in mate(yr) : TRUE][column]
            IN [ok |-> TRUE,
                rows |-> [i \in 1..Len(found) |-> value(found[i])]]

-----------------------------------------------------------------------------
(* PlotSettings: the catalog. *)

_get_college_names(d) ==
    OrderByName([i \in 1..Len(d.college) |-> d.college[i].INSTNM])

_get_year_names(d) == d.tables

\* The data types and the index _get_data_types leaves in
\* max_college_data_index.
_get_data_types(d) ==
    LET keep(e) == e.type # "TEXT" /\ e.name # "college_id"
        cfields == SelectSeq(d.college_info, keep)
        numeric(e) == e.type # "TEXT"
        yfields == SelectSeq(Tail(d.year_info), numeric)
    IN [ data_types |->
            [i \in 1..Len(cfields) |-> cfields[i].name] \o
            [i \in 1..Len(yfields) |-> yfields[i].name],
         max_college_data_index |-> Len(cfields) - 1 ]

\* PlotSettings.__init__: the fields after construction.  The assignment
\* max_college_data_index = 0 comes after the call of _get_data_types, so
\* the index that call computed is not the one kept.
PlotSettingsInit(d) ==
    LET loaded == _get_data_types(d)
    IN [ college_names |-> _get_college_names(d),
         year_names |-> _get_year_names(d),
         data_types |-> loaded.data_types,
         max_college_data_index |-> 0,
         series_plots |-> <<>> ]

-----------------------------------------------------------------------------
(* SeriesOptions and SeriesPlot. *)

\* QComboBox.currentIndex() of a freshly filled combo box.
FirstIndex(items) == IF Len(items) > 0 THEN 0 ELSE -1

\* QComboBox.currentText(): the empty string when nothing is selected.
CurrentText(items, index) == IF index >= 0 THEN items[index + 1] ELSE ""

\* SeriesOptions.__init__: four combo boxes, each on its first item.
NewSeriesOptions ==
    [ schoolbox |-> FirstIndex(college_names),
      databox |-> FirstIndex(data_types),
      startyearbox |-> FirstIndex(year_names),
      endyearbox |-> FirstIndex(year_names) ]

\* SeriesPlot.__init__
SeriesPlot(college, data_type, start_year, end_year, is_college) ==
    [ college |-> college, data_type |-> data_type,
      start_year |-> start_year, end_year |-> end_year,
      is_college |-> is_college, data |-> <<>> ]

\* SeriesOptions.get_series
get_series(o) ==
    LET is_college_data == o.databox <= max_college_data_index
    IN SeriesPlot(CurrentText(college_names, o.schoolbox),
                  CurrentText(data_types, o.databox),
                  year_names[o.startyearbox + 1],
                  year_names[o.endyearbox + 1],
                  is_college_data)

\* SeriesPlot.to_string
to_string(s) == <<s.college, s.data_type, s.start_year, s.end_year>>

\* SeriesPlot.get_xy_data: ok is FALSE when self.data[0] raises IndexError.
get_xy_data(s) ==
    LET x_data == RangeList(s.start_year, s.end_year)
    IN IF s.is_college
       THEN IF Len(x_data) > 0 /\ Len(s.data) = 0
            THEN [ok |-> FALSE, x |-> x_data, y |-> <<>>]
            ELSE [ok |-> TRUE, x |-> x_data,
                  y |-> [i \in 1..Len(x_data) |-> s.data[1]]]
       ELSE [ok |-> TRUE, x |-> x_data, y |-> s.data]

-----------------------------------------------------------------------------
(* PlotSettings.query_db *)

NoData(s) == <<"No data found for series: ", to_string(s)>>

\* The year-scoped branch for one series: one lookup per year of the range,
\* in order, then print(series.data).  A lookup that raises ends the branch.
RECURSIVE QueryYears(_, _, _, _)
QueryYears(d, s, years, out) ==
    IF years = <<>>
    THEN [series |-> s, printed |-> Append(out, <<"data", s.data>>),
          raised |-> ""]
    ELSE LET results == ExecYear(d, s.data_type, years[1], s.college)
         IN IF ~results.ok
            THEN [series |-> s, printed |-> out,
                  raised |-> "OperationalError"]
            ELSE QueryYears(
                    d,
                    [s EXCEPT !.data = s.data \o results.rows],
                    Tail(years),
                    IF Len(results.rows) = 0 THEN Append(out, NoData(s))
                    ELSE out)

\* Variant of QuerySeries that makes no lookup for an empty year range.
QuerySeriesSkipsEmptyRange(d, s) ==
    LET years == RangeList(s.start_year, s.end_year)
    IN IF s.is_college /\ years # <<>>
       THEN LET results == ExecCollege(d, s.data_type, s.college)
            IN IF ~results.ok
               THEN [series |-> s, printed |-> <<>>,
                     raised |-> "OperationalError"]
               ELSE [series |-> [s EXCEPT !.data = s.data \o results.rows],
                     printed |-> IF Len(results.rows) = 0 THEN <<NoData(s)>>
                                 ELSE <<>>,
                     raised |-> ""]
       ELSE QueryYears(d, s, years, <<>>)

\* The loop body of query_db for one series.
QuerySeries(d, s) ==
    LET years == RangeList(s.start_year, s.end_year)
    IN IF s.is_college
       THEN LET results == ExecCollege(d, s.data_type, s.college)
            IN IF ~results.ok
               THEN [series |-> s, printed |-> <<>>,
                     raised |-> "OperationalError"]
               ELSE [series |-> [s EXCEPT !.data = s.data \o results.rows],
                     printed |-> IF Len(results.rows) = 0 THEN <<NoData(s)>>
                                 ELSE <<>>,
                     raised |-> ""]
       ELSE QueryYears(d, s, years, <<>>)

\* query_db from series i on; the series after a raise are left untouched.
RECURSIVE QueryFrom(_, _, _, _)
QueryFrom(d, plots, i, out) ==
    IF i > Len(plots)
    THEN [plots |-> plots, printed |-> out, raised |-> ""]
    ELSE LET r == QuerySeries(d, plots[i])
             done == [plots EXCEPT ![i] = r.series]
         IN IF r.raised # ""
            THEN [plots |-> done, printed |-> out \o r.printed,
                  raised |-> r.raised]
            ELSE QueryFrom(d, done, i + 1, out \o r.printed)

query_db(d, plots) == QueryFrom(d, plots, 1, <<>>)

\* PlotSettings._get_year_range, as the integers its callers convert to.
RECURSIVE YearRangeFrom(_, _, _, _)
YearRangeFrom(plots, i, min_year, max_year) ==
    IF i > Len(plots) THEN <<min_year, max_year>>
    ELSE YearRangeFrom(
            plots, i + 1,
            IF plots[i].start_year < min_year THEN plots[i].start_year
            ELSE min_year,
            IF plots[i].end_year > max_year THEN plots[i].end_year
            ELSE max_year)

_get_year_range(plots) == YearRangeFrom(plots, 1, 10000, 0)

-----------------------------------------------------------------------------
(* MainWindow: the figure. *)

colors == <<"b", "g", "r", "c", "m", "y", "k">>

markers == <<"o", "s", "^">>

Placeholder == "Use the menubar above (Plot => New Plot) to plot data."

\* A fresh Axes: axis shown, nothing drawn, default limits, label, tick
\* colour and right spine position (1.0).
NewAxes ==
    [ axis_on |-> TRUE, collections |-> <<>>, ylim |-> <<>>, ylabel |-> "",
      ycolor |-> "", spine |-> 100 ]

\* MainWindow.build_figure
build_figure ==
    [ suptitle |-> Placeholder, left |-> 75, right |-> 900, xlim |-> <<>>,
      axes |-> <<>>, has_legend |-> FALSE, legend |-> <<>> ]

\* Variant of get_y_limits that takes the first and last non-null values for
\* the extremes (correct on ascending data only).
get_y_limits_ends(y_data) ==
    LET present(y) == y # None
        clean_y_data == SelectSeq(y_data, present)
    IN IF Len(clean_y_data) = 0
       THEN [ok |-> FALSE, lim |-> <<>>]
       ELSE [ok |-> TRUE,
             lim |-> <<clean_y_data[1][1] * 9,
                       clean_y_data[Len(clean_y_data)][1] * 11>>]

\* MainWindow.get_y_limits, in tenths; ok is FALSE when min() of the empty
\* list raises ValueError.
get_y_limits(y_data) ==
    LET present(y) == y # None
        clean_y_data == SelectSeq(y_data, present)
        numbers == [i \in 1..Len(clean_y_data) |-> clean_y_data[i][1]]
    IN IF Len(clean_y_data) = 0
       THEN [ok |-> FALSE, lim |-> <<>>]
       ELSE [ok |-> TRUE,
             lim |-> <<SeqMin(numbers) * 9, SeqMax(numbers) * 11>>]

\* The test of update_figure that skips a series ("data does not exist").
SkipSeries(y_data) ==
    Len(y_data) = 0 \/ (Len(y_data) = 1 /\ y_data[1] = None)

\* The message of the popup for a skipped series.
NoDataPopup(s) == <<s.data_type, s.college, s.start_year, s.end_year>>

\* Variant of SeriesColor that starts the cycle one colour late.
SeriesColorShifted(count) == colors[((count + 1) % Len(colors)) + 1]

\* colors[count % len(colors)]
SeriesColor(count) == colors[(count % Len(colors)) + 1]

\* int(count / len(colors)), the index into markers
MarkerIndex(count) == count \div Len(colors)

\* Axes.scatter: matplotlib raises ValueError ("x and y must be the same
\* size") when the two sequences differ in length.
scatter(ax, x_data, y_data, c, marker, label) ==
    IF Len(x_data) # Len(y_data)
    THEN [ok |-> FALSE, ax |-> ax]
    ELSE [ok |-> TRUE,
          ax |-> [ax EXCEPT !.collections =
                    Append(@, [x |-> x_data, y |-> y_data, c |-> c,
                               marker |-> marker, label |-> label])]]

\* Variant of ClearedFigure that leaves the axes of the previous pass in
\* the figure.
ClearedFigureKeepsAxes(fig, plots) ==
    LET range == _get_year_range(plots)
        n == IF Len(plots) > 1 THEN Len(plots) ELSE 1
    IN [fig EXCEPT !.suptitle = "",
                   !.axes = [i \in 1..n |-> NewAxes] \o fig.axes,
                   !.xlim = <<range[1] - 1, range[2] + 1>>,
                   !.has_legend = FALSE,
                   !.legend = <<>>]

\* MainWindow.build_parent_axes and the twinned axes: the cleared figure
\* with one Axes per series (at least one), sharing the x limits.
ClearedFigure(fig, plots) ==
    LET range == _get_year_range(plots)
        n == IF Len(plots) > 1 THEN Len(plots) ELSE 1
    IN [fig EXCEPT !.suptitle = "",
                   !.axes = [i \in 1..n |-> NewAxes],
                   !.xlim = <<range[1] - 1, range[2] + 1>>,
                   !.has_legend = FALSE,
                   !.legend = <<>>]

\* Axes.get_legend_handles_labels over ax_list, in order.
RECURSIVE LegendLabels(_)
LegendLabels(axes) ==
    IF axes = <<>> THEN <<>>
    ELSE [i \in 1..Len(axes[1].collections) |->
            axes[1].collections[i].label] \o LegendLabels(Tail(axes))

\* The series loop of update_figure from list position index (1-based here)
\* with count series drawn so far, then the legend.
RECURSIVE RenderFrom(_, _, _, _, _)
RenderFrom(plots, index, count, fig, pops) ==
    IF index > Len(plots)
    THEN [figure |-> [fig EXCEPT !.has_legend = TRUE,
                                 !.legend = LegendLabels(fig.axes)],
          popups |-> pops, raised |-> ""]
    ELSE
    LET series == plots[index]
        xy == get_xy_data(series)
        ax_label == <<series.college, series.data_type>>
        color == SeriesColor(count)
        drawn == scatter(fig.axes[index], xy.x, xy.y, color,
                         markers[MarkerIndex(count) + 1], ax_label)
        limits == get_y_limits(xy.y)
        with_scatter == [fig EXCEPT !.axes[index] = drawn.ax]
        styled == [drawn.ax EXCEPT !.ylim = limits.lim,
                                   !.ylabel = series.data_type,
                                   !.ycolor = color,
                                   !.spine = IF count > 1 THEN 95 + 7 * count
                                             ELSE @]
        finished == [fig EXCEPT !.axes[index] = styled,
                                !.right = IF count > 1 THEN 900 - 25 * count
                                          ELSE @]
    IN IF ~xy.ok
       THEN [figure |-> fig, popups |-> pops, raised |-> "IndexError"]
       ELSE IF SkipSeries(xy.y)
       THEN RenderFrom(plots, index + 1, count,
                       [fig EXCEPT !.axes[index].axis_on = FALSE],
                       Append(pops, NoDataPopup(series)))
       ELSE IF MarkerIndex(count) >= Len(markers)
       THEN [figure |-> fig, popups |-> pops, raised |-> "IndexError"]
       ELSE IF ~drawn.ok
       THEN [figure |-> fig, popups |-> pops, raised |-> "ValueError"]
       ELSE IF ~limits.ok
       THEN [figure |-> with_scatter, popups |-> pops,
             raised |-> "ValueError"]
       ELSE RenderFrom(plots, index + 1, count + 1, finished, pops)

\* MainWindow.update_figure
update_figure(fig, plots) ==
    RenderFrom(plots, 1, 0, ClearedFigure(fig, plots), <<>>)

-----------------------------------------------------------------------------
(* The handlers. *)

\* The cap of PlotConfigWindow.get_plot_settings.
MaxPlots == 20

TooMany == <<"Maximum number of plots supported is 20.">>

\* Plot => New Plot: PlotConfigWindow.show
ShowWindow ==
    /\ ~window_shown
    /\ window_shown' = TRUE
    /\ UNCHANGED <<catalog, series_plots, series_options, figure, printed,
                   popups, raised>>

\* 'Add Data Series': PlotConfigWindow._addSeries (limit bounds the model)
_addSeries(limit) ==
    /\ window_shown
    /\ Len(series_options) < limit
    /\ series_options' = <<NewSeriesOptions>> \o series_options
    /\ UNCHANGED <<catalog, series_plots, window_shown, figure, printed,
                   popups, raised>>

\* 'Remove Series' on row i: SeriesOptions.remove_plot
remove_plot(i) ==
    /\ window_shown
    /\ i \in 1..Len(series_options)
    /\ series_options' =
          SubSeq(series_options, 1, i - 1) \o
          SubSeq(series_options, i + 1, Len(series_options))
    /\ UNCHANGED <<catalog, series_plots, window_shown, figure, printed,
                   popups, raised>>

\* The user picks another item in one combo box of row i.
SelectItem(i, box, items, index) ==
    /\ window_shown
    /\ i \in 1..Len(series_options)
    /\ index \in 0..(Len(items) - 1)
    /\ index # series_options[i][box]
    /\ series_options' = [series_options EXCEPT ![i][box] = index]
    /\ UNCHANGED <<catalog, series_plots, window_shown, figure, printed,
                   popups, raised>>

SelectSchool ==
    \E i \in 1..Len(series_options), k \in 0..(Len(college_names) - 1) :
        SelectItem(i, "schoolbox", college_names, k)

SelectData ==
    \E i \in 1..Len(series_options), k \in 0..(Len(data_types) - 1) :
        SelectItem(i, "databox", data_types, k)

SelectStartYear ==
    \E i \in 1..Len(series_options), k \in 0..(Len(year_names) - 1) :
        SelectItem(i, "startyearbox", year_names, k)

SelectEndYear ==
    \E i \in 1..Len(series_options), k \in 0..(Len(year_names) - 1) :
        SelectItem(i, "endyearbox", year_names, k)

\* Variant of FreshSeriesPlots without clear_series_plots: the new series
\* are appended to those of the previous plot action.
StaleSeriesPlots ==
    series_plots \o [i \in 1..Len(series_options) |->
                        get_series(series_options[i])]

\* PlotSettings.clear_series_plots, then add_series_plot of every row's
\* get_series
FreshSeriesPlots == [i \in 1..Len(series_options) |->
                        get_series(series_options[i])]

\* 'Plot Series': PlotConfigWindow.get_plot_settings
get_plot_settings ==
    /\ window_shown
    /\ IF Len(series_options) > MaxPlots
       THEN /\ printed' = <<TooMany>>
            /\ popups' = <<>>
            /\ raised' = ""
            /\ window_shown' = FALSE
            /\ UNCHANGED <<series_plots, figure>>
       ELSE LET resolved == query_db(db, FreshSeriesPlots)
                rendered == update_figure(figure, resolved.plots)
            IN /\ series_plots' = resolved.plots
               /\ printed' = resolved.printed
               /\ IF resolved.raised # ""
                  THEN /\ raised' = resolved.raised
                       /\ popups' = <<>>
                       /\ UNCHANGED <<figure, window_shown>>
                  ELSE /\ figure' = rendered.figure
                       /\ popups' = rendered.popups
                       /\ raised' = rendered.raised
                       /\ window_shown' = (rendered.raised # "")
    /\ UNCHANGED <<catalog, series_options>>

-----------------------------------------------------------------------------
(* Spec: the application on any of the databases, with a small            *)
(* configuration window.                                                  *)

\* Interface.__init__
Init ==
    /\ db \in Databases
    /\ LET settings == PlotSettingsInit(db)
       IN /\ college_names = settings.college_names
          /\ year_names = settings.year_names
          /\ data_types = settings.data_types
          /\ max_college_data_index = settings.max_college_data_index
          /\ series_plots = settings.series_plots
    /\ series_options = <<>>
    /\ window_shown = FALSE
    /\ figure = build_figure
    /\ printed = <<>>
    /\ popups = <<>>
    /\ raised = ""

Next ==
    \/ ShowWindow
    \/ _addSeries(MaxOptions)
    \/ \E i \in 1..Len(series_options) : remove_plot(i)
    \/ SelectSchool
    \/ SelectData
    \/ SelectStartYear
    \/ SelectEndYear
    \/ get_plot_settings

Spec == Init /\ [][Next]_vars

-----------------------------------------------------------------------------
(* SpecCap: the same application with the combo boxes left on their first  *)
(* items, and a configuration window that may grow past the cap.           *)

NextCap ==
    \/ ShowWindow
    \/ _addSeries(MaxPlots + OverCap)
    \/ \E i \in 1..Len(series_options) : remove_plot(i)
    \/ get_plot_settings

SpecCap == Init /\ [][NextCap]_vars

-----------------------------------------------------------------------------
(* SpecRender: update_figure on batches of resolved series handed to       *)
(* PlotSettings.add_series_plot directly, one render per batch.            *)

Resolved(data_type, start_year, end_year, is_college, data) ==
    [ SeriesPlot("A", data_type, start_year, end_year, is_college)
        EXCEPT !.data = data ]

\* Series as query_db leaves them.
EntityValue == Resolved("E1", 2010, 2011, TRUE, <<Num(10)>>)

EntityNull == Resolved("E1", 2010, 2010, TRUE, <<None>>)

EntityNullTwoYears == Resolved("E1", 2010, 2011, TRUE, <<None>>)

EntityNoRow == Resolved("E1", 2010, 2011, TRUE, <<>>)

YearValues == Resolved("Y1", 2010, 2012, FALSE, <<Num(10), Num(20), Num(30)>>)

YearSomeNull == Resolved("Y1", 2010, 2012, FALSE, <<None, Num(30), Num(20)>>)

YearAllNull == Resolved("Y1", 2010, 2011, FALSE, <<None, None>>)

YearNoRow == Resolved("Y1", 2010, 2011, FALSE, <<>>)

YearOneMissing == Resolved("Y1", 2010, 2011, FALSE, <<Num(10)>>)

ResolvedSamples ==
    { EntityValue, EntityNull, EntityNullTwoYears, EntityNoRow, YearValues,
      YearSomeNull, YearAllNull, YearNoRow, YearOneMissing }

\* The batches SpecRender builds: short ones over every sample, and long
\* ones of series with a value and a few series without rows.
BatchAllowed(plots) ==
    LET range == { plots[i] : i \in 1..Len(plots) }
        empty == { i \in 1..Len(plots) : plots[i] = YearNoRow }
    IN \/ Len(plots) <= MaxBatch /\ range \subseteq ResolvedSamples
       \/ /\ Len(plots) <= MaxPalette
          /\ range \subseteq {EntityValue, YearNoRow}
          /\ Cardinality(empty) <= MaxSkipped

InitRender ==
    /\ db = DbFull
    /\ LET settings == PlotSettingsInit(db)
       IN /\ college_names = settings.college_names
          /\ year_names = settings.year_names
          /\ data_types = settings.data_types
          /\ max_college_data_index = settings.max_college_data_index
          /\ series_plots = settings.series_plots
    /\ series_options = <<>>
    /\ window_shown = FALSE
    /\ figure = build_figure
    /\ printed = <<>>
    /\ popups = <<>>
    /\ raised = ""

\* PlotSettings.add_series_plot
add_series_plot(series_plot) ==
    /\ figure = build_figure
    /\ BatchAllowed(Append(series_plots, series_plot))
    /\ series_plots' = Append(series_plots, series_plot)
    /\ UNCHANGED <<catalog, series_options, window_shown, figure, printed,
                   popups, raised>>

\* MainWindow.update_figure on the batch
RenderBatch ==
    /\ figure = build_figure
    /\ LET rendered == update_figure(figure, series_plots)
       IN /\ figure' = rendered.figure
          /\ popups' = rendered.popups
          /\ raised' = rendered.raised
    /\ UNCHANGED <<catalog, series_plots, series_options, window_shown,
                   printed>>

NextRender ==
    \/ \E sp \in ResolvedSamples : add_series_plot(sp)
    \/ RenderBatch

SpecRender == InitRender /\ [][NextRender]_vars

-----------------------------------------------------------------------------
(* Properties. *)

Count(seq, v) == Cardinality({ k \in 1..Len(seq) : seq[k] = v })

\* The latest 'Plot Series' was accepted and query_db returned, so that
\* update_figure ran on series_plots.
LastPassRendered ==
    /\ figure.suptitle = ""
    /\ raised # "OperationalError"
    /\ printed # <<TooMany>>

\* The latest 'Plot Series' was accepted and query_db returned.
LastPassResolved == raised # "OperationalError" /\ printed # <<TooMany>>

\* Requests of series_plots equal to request i.
SameRequest(i) ==
    { j \in 1..Len(series_plots) :
        to_string(series_plots[j]) = to_string(series_plots[i]) }

AllNull(y_data) == \A k \in 1..Len(y_data) : y_data[k] = None

HasValue(s) == \E k \in 1..Len(s.data) : s.data[k] # None

\* C1 (as claimed): every series built by get_series is flagged entity-scoped
\* exactly when its field is a column of the College table, and year-scoped
\* exactly when it is a column of the year tables.
C1_BoundaryClassifies ==
    \A i \in 1..Len(series_plots) :
        /\ series_plots[i].is_college <=>
              series_plots[i].data_type \in ColNames(db.college_info)
        /\ ~series_plots[i].is_college <=>
              series_plots[i].data_type \in ColNames(db.year_info)

\* C2 (as claimed): after query_db, get_xy_data of an entity-scoped series
\* over [Y1..Y2] returns without raising, x has Y2 - Y1 + 1 entries, and y
\* is the retrieved constant at every entry, or empty when no row matched.
C2_EntityBroadcast ==
    LastPassResolved =>
        \A i \in 1..Len(series_plots) :
            LET s == series_plots[i]
                xy == get_xy_data(s)
            IN (s.is_college /\ s.start_year <= s.end_year) =>
                  /\ xy.ok
                  /\ Len(xy.x) = s.end_year - s.start_year + 1
                  /\ IF s.data = <<>> THEN xy.y = <<>>
                     ELSE /\ Len(xy.y) = Len(xy.x)
                          /\ \A k \in 1..Len(xy.y) : xy.y[k] = s.data[1]

\* C3 (as claimed): in one plot action a request that matched no row gets
\* exactly one diagnostic from each layer (one 'No data found' line, one
\* popup), has no legend entry, and every request of the batch that has a
\* value is drawn.
C3_OneDiagnosticOthersPlotted ==
    LastPassRendered =>
        \A i \in 1..Len(series_plots) :
            series_plots[i].data = <<>> =>
                /\ Count(printed, NoData(series_plots[i])) =
                      Cardinality(SameRequest(i))
                /\ Count(popups, NoDataPopup(series_plots[i])) =
                      Cardinality(SameRequest(i))
                /\ figure.axes[i].collections = <<>>
                /\ \A j \in 1..Len(series_plots) :
                      HasValue(series_plots[j]) =>
                          /\ Len(figure.axes[j].collections) = 1
                          /\ figure.axes[j].ylim # <<>>
                          /\ figure.axes[j].collections[1].label \in
                                { figure.legend[k] :
                                    k \in 1..Len(figure.legend) }

\* C4 (as claimed): a series whose y-values are all null, whatever their
\* number, or whose y-sequence is empty has its axis hidden, a popup naming
\* it, and is passed neither to scatter nor to get_y_limits.
C4_AllNullHidden ==
    LastPassRendered =>
        \A i \in 1..Len(series_plots) :
            LET xy == get_xy_data(series_plots[i])
            IN (xy.ok /\ AllNull(xy.y)) =>
                  /\ ~figure.axes[i].axis_on
                  /\ figure.axes[i].collections = <<>>
                  /\ figure.axes[i].ylim = <<>>
                  /\ Count(popups, NoDataPopup(series_plots[i])) >= 1

IsEmptyFigure(f) == f.suptitle = Placeholder /\ f.axes = <<>> /\ f.legend = <<>>

\* The figure update_figure leaves for an empty series list: no caption, the
\* parent axes alone with nothing drawn, a legend without entries.
BareFigure(f) ==
    /\ f.suptitle = ""
    /\ f.axes = <<NewAxes>>
    /\ f.has_legend
    /\ f.legend = <<>>

\* C5 (as claimed): the figure is Empty (placeholder caption, no axes) or
\* Populated (axes and a legend), and whenever the latest plot action
\* carried an empty series list it is Empty.
C5_EmptyRoundTrip ==
    /\ IsEmptyFigure(figure) \/ (Len(figure.axes) >= 1 /\ figure.has_legend)
    /\ (series_plots = <<>> /\ LastPassResolved) => IsEmptyFigure(figure)

\* C5 (amended): the figure starts Empty; a plot action carrying an empty
\* series list leaves no caption, one bare parent axes and a legend without
\* entries, whatever the figure was before; and the Empty placeholder state
\* is never entered again.
C5_EmptyBatchBareAxes ==
    /\ IsEmptyFigure(figure)
    /\ [][ /\ (get_plot_settings /\ Len(series_options) = 0) =>
                 BareFigure(figure')
           /\ ~IsEmptyFigure(figure) => ~IsEmptyFigure(figure') ]_vars

\* C5 witness: an empty batch has been rendered.
C5_Witness == series_plots = <<>> /\ BareFigure(figure) /\ ~window_shown

Drawn(i) == figure.axes[i].collections # <<>>

DrawnBefore(i) == Cardinality({ j \in 1..(i - 1) : Drawn(j) })

\* C7 (as claimed): the series at input position p (0-based) is drawn with
\* colors[p mod 7] and markers[floor(p / 7)], skipped series before it or
\* not.
C7_ByPosition ==
    \A i \in 1..Len(figure.axes) :
        (Drawn(i) /\ i <= Len(colors) * Len(markers)) =>
            /\ figure.axes[i].collections[1].c = colors[((i - 1) % 7) + 1]
            /\ figure.axes[i].collections[1].marker =
                  markers[((i - 1) \div 7) + 1]

\* C7 (amended): a drawn series has colors[k mod 7] and markers[floor(k / 7)]
\* where k is the number of series drawn before it in the pass; no two drawn
\* series share a (colour, marker) pair.
C7_ByDrawCount ==
    /\ \A i \in 1..Len(figure.axes) :
          Drawn(i) =>
              /\ DrawnBefore(i) < Len(colors) * Len(markers)
              /\ figure.axes[i].collections[1].c =
                    colors[(DrawnBefore(i) % 7) + 1]
              /\ figure.axes[i].collections[1].marker =
                    markers[(DrawnBefore(i) \div 7) + 1]
    /\ \A i, j \in 1..Len(figure.axes) :
          (Drawn(i) /\ Drawn(j) /\ i # j) =>
              <<figure.axes[i].collections[1].c,
                figure.axes[i].collections[1].marker>> #
              <<figure.axes[j].collections[1].c,
                figure.axes[j].collections[1].marker>>

\* C7 witness: 21 series drawn after a skipped one.
C7_Witness ==
    /\ Len(figure.axes) = 22
    /\ ~Drawn(1)
    /\ DrawnBefore(23) = 21
    /\ figure.has_legend

\* C8 (as claimed): 'Plot Series' with more than 20 rows leaves series_plots
\* and the figure as they were and reaches neither query_db nor
\* update_figure; with 20 rows or fewer the batch is resolved and rendered.
C8_CapFrame ==
    [][ get_plot_settings =>
          IF Len(series_options) > MaxPlots
          THEN /\ series_plots' = series_plots
               /\ figure' = figure
               /\ popups' = <<>>
               /\ printed' = <<TooMany>>
          ELSE /\ Len(series_plots') = Len(series_options)
               /\ raised' = ""
               /\ figure'.suptitle = ""
               /\ figure'.has_legend
               /\ Len(figure'.axes) >= Len(series_options) ]_vars

\* C8, the part that holds: a batch over the cap changes neither
\* series_plots nor the figure, and raises no popup.
C8_RejectedUnchanged ==
    [][ (get_plot_settings /\ Len(series_options) > MaxPlots) =>
            /\ series_plots' = series_plots
            /\ figure' = figure
            /\ popups' = <<>>
            /\ printed' = <<TooMany>> ]_vars

IsPrefix(a, b) == Len(a) <= Len(b) /\ SubSeq(b, 1, Len(a)) = a

\* C9: an accepted 'Plot Series' leaves in series_plots exactly one SeriesPlot
\* per row of the window, in the rows' order, with the row's selections and
\* only the values this pass looked up (all of them when query_db returned).
C9_ReplacedWholesale ==
    [][ (get_plot_settings /\ Len(series_options) <= MaxPlots) =>
          /\ Len(series_plots') = Len(series_options)
          /\ \A i \in 1..Len(series_options) :
                LET o == series_options[i]
                    s == series_plots'[i]
                    alone == QuerySeries(db, get_series(o)).series.data
                IN /\ s.college = CurrentText(college_names, o.schoolbox)
                   /\ s.data_type = CurrentText(data_types, o.databox)
                   /\ s.start_year = year_names[o.startyearbox + 1]
                   /\ s.end_year = year_names[o.endyearbox + 1]
                   /\ IsPrefix(s.data, alone)
                   /\ raised' # "OperationalError" => s.data = alone ]_vars

\* C9 witness: two different resolved series are held after a plot action.
C9_Witness ==
    /\ LastPassRendered
    /\ Len(series_plots) = 2
    /\ Len(series_options) = 2
    /\ series_plots[1].data_type # series_plots[2].data_type
    /\ \A i \in 1..2 : series_plots[i].data # <<>>

SetMin(S) == CHOOSE m \in S : \A v \in S : m <= v

SetMax(S) == CHOOSE m \in S : \A v \in S : m >= v

NonNull(y_data) ==
    { y_data[k][1] : k \in { n \in 1..Len(y_data) : y_data[n] # None } }

\* C10: a drawn series with at least one non-null y-value gets the y limits
\* (0.9 * least non-null value, 1.1 * greatest non-null value), here in
\* tenths.
C10_YLimits ==
    \A i \in 1..Len(figure.axes) :
        LET values == NonNull(figure.axes[i].collections[1].y)
        IN (Drawn(i) /\ values # {}) =>
              figure.axes[i].ylim =
                  <<9 * SetMin(values), 11 * SetMax(values)>>

\* C10 witness: [10, 20, 30] has limits [9, 33], and a series with a null
\* has the limits of its other values.
C10_Witness ==
    \E i, j \in 1..Len(figure.axes) :
        /\ Drawn(i)
        /\ figure.axes[i].collections[1].y = <<Num(10), Num(20), Num(30)>>
        /\ figure.axes[i].ylim = <<90, 330>>
        /\ Drawn(j)
        /\ figure.axes[j].collections[1].y = <<None, Num(30), Num(20)>>
        /\ figure.axes[j].ylim = <<180, 330>>

-----------------------------------------------------------------------------
(* C11, C12: year tables and rows that are missing inside a range. *)

\* The request of series i of the latest pass, before any value was stored.
Requested(i) == [series_plots[i] EXCEPT !.data = <<>>]

\* The values of the year tables of the catalog that lie in the range of s,
\* in year order: what a resolution that passes over the other years keeps.
RECURSIVE CatalogYearValues(_, _)
CatalogYearValues(s, years) ==
    IF years = <<>> THEN <<>>
    ELSE (IF \E k \in 1..Len(year_names) : year_names[k] = years[1]
          THEN ExecYear(db, s.data_type, years[1], s.college).rows
          ELSE <<>>) \o CatalogYearValues(s, Tail(years))

\* C11: resolving a year-scoped request of the latest pass ends without a
\* query error, and the values it holds are those of the years of its range
\* that are year tables of the catalog, the other years being passed over.
C11_OnlyCatalogYears ==
    \A i \in 1..Len(series_plots) :
        ~series_plots[i].is_college =>
            LET s == Requested(i)
                r == QuerySeries(db, s)
            IN /\ r.raised = ""
               /\ r.series.data =
                      CatalogYearValues(
                          s, RangeList(s.start_year, s.end_year))

\* C12: for every series of a resolved pass that update_figure does not
\* skip, get_xy_data returns sequences of equal length whose i-th y is the
\* value retrieved for the i-th x year, gaps in a year-scoped series
\* included.
C12_ParallelXY ==
    LastPassResolved =>
        \A i \in 1..Len(series_plots) :
            LET s == series_plots[i]
                xy == get_xy_data(s)
                retrieved(year) ==
                    IF s.is_college
                    THEN ExecCollege(db, s.data_type, s.college).rows
                    ELSE ExecYear(db, s.data_type, year, s.college).rows
            IN (xy.ok /\ ~SkipSeries(xy.y)) =>
                  /\ Len(xy.x) = Len(xy.y)
                  /\ \A k \in 1..Len(xy.x) :
                         k <= Len(xy.y) /\ retrieved(xy.x[k]) = <<xy.y[k]>>

====
